---- MODULE Spec2Model ----
(***************************************************************************)
(* QuickSessions: template storage (StorageService), tab opening            *)
(* (TabService), template operations (TemplateManager) and the startup      *)
(* hook (StartupHandler), as a state machine over the synced key-value      *)
(* store.                                                                    *)
(*                                                                           *)
(* Values.  A URL is the pair <<protocol, rest>> that `new URL(url)` splits  *)
(* it into; a pair with an empty protocol is a string that does not parse,   *)
(* and <<"", "">> is the empty string.  Timestamps are clock readings        *)
(* (naturals); the JavaScript null of lastUsedAt is Null.  A template id is  *)
(* a string; the JavaScript null of defaultTemplateId is NullId.             *)
(***************************************************************************)
EXTENDS Integers, Sequences, FiniteSets, TLC

VARIABLES
    templates,   \* value stored under STORAGE_KEYS.TEMPLATES (a sequence)
    settings,    \* value stored under STORAGE_KEYS.SETTINGS
    now,         \* the wall clock read by new Date()
    nextId,      \* number of ids generateUUID has handed out
    pending,     \* template id held by the startup setTimeout, or NullId
    ops,         \* number of operations performed so far
    last,        \* observation of the last operation (inputs, outcome, host calls)
    keys,        \* the keys chrome.storage.sync holds a value for
    flight       \* operations that have read the store and not yet finished

vars == <<templates, settings, now, nextId, pending, ops, last, keys, flight>>

-----------------------------------------------------------------------------
(* Bounds of the model *)

\* stand-in for TEMPLATE.MAX_TABS (100 in the source), scaled to be explorable
MAX_TABS == 2
\* longest template list a creating operation may produce
MaxTemplates == 3
\* operations and clock ticks in one run
MaxOps == 3

-----------------------------------------------------------------------------
(* Program constants *)

MAX_TEMPLATE_NAME_LENGTH == 50
MAX_URL_LENGTH == 2048

Null == 0 - 1
NullId == "null"
NullTemplate == [null |-> TRUE]
Valid == "valid"

\* STORAGE_KEYS
TemplatesKey == "quicksessions_templates"
SettingsKey == "quicksessions_settings"
VersionKey == "quicksessions_version"
STORAGE_KEYS == {TemplatesKey, SettingsKey, VersionKey}

\* a rejected chrome.storage.sync.get: what the read of the settings yields, and
\* (as a one-element list) what the read of the template list yields
ReadFailed == [error |-> "read failed"]

DEFAULT_COLOR == "#4285F4"
DEFAULT_ICON == "icon"

DEFAULT_SETTINGS ==
    [ startupBehavior   |-> "none",
      defaultTemplateId |-> NullId,
      openBehavior      |-> "new_window",
      closeExistingTabs |-> FALSE,
      sortBy            |-> "lastUsed",
      sortOrder         |-> "desc",
      theme             |-> "auto",
      showFavicons      |-> TRUE,
      confirmDelete     |-> TRUE ]

-----------------------------------------------------------------------------
(* Sequence helpers *)

Range(s) == { s[i] : i \in 1..Len(s) }

\* Array.prototype.findIndex, 1-based; 0 stands for the -1 of JavaScript
FindIndex(list, id) ==
    IF \E i \in 1..Len(list) : list[i].id = id
    THEN CHOOSE i \in 1..Len(list) :
            /\ list[i].id = id
            /\ \A j \in 1..(i - 1) : list[j].id # id
    ELSE 0

Ids(list) == { list[i].id : i \in 1..Len(list) }

\* no two entries of the list share an id
UniqueIds(list) ==
    \A i, j \in 1..Len(list) : list[i].id = list[j].id => i = j

-----------------------------------------------------------------------------
(* Sample values.  Names are sequences of characters, so that trim,        *)
(* substring, replace and length are computed as the code computes them.   *)

U_mail   == <<"https:", "//mail.example.com">>
U_docs   == <<"http:", "//docs.example.com">>
U_chrome == <<"chrome:", "//settings">>
U_ftp    == <<"ftp:", "//files.example.com">>
U_garbage == <<"", "not a url">>
U_empty  == <<"", "">>

N_Work  == <<"W", "o", "r", "k">>
N_Mail  == <<" ", "M", "a", "i", "l", " ">>
N_Angle == <<"<", ">">>
N_Empty == <<>>
CopySuffix == <<" ", "(", "C", "o", "p", "y", ")">>
\* the shortest name that is too long once CopySuffix is appended
N_Long == [i \in 1..(MAX_TEMPLATE_NAME_LENGTH - Len(CopySuffix) + 1) |-> "x"]

T_mail == [url |-> U_mail, title |-> "Mail"]
T_docs == [url |-> U_docs, title |-> "Docs"]
T_chrome == [url |-> U_chrome, title |-> "Settings"]
T_ftp == [url |-> U_ftp, title |-> "Files"]
T_untitled == [url |-> U_mail, title |-> ""]

-----------------------------------------------------------------------------
(* Validator (src/utils/validator.js) *)

validateUrl(url) ==
    IF url[1] = "" /\ url[2] = "" THEN "URL is required"
    ELSE IF Len(url[1]) + Len(url[2]) > MAX_URL_LENGTH THEN "URL is too long"
    ELSE IF url[1] = "" THEN "Invalid URL format"
    ELSE IF url[1] \notin {"http:", "https:"}
         THEN "URL must use http or https protocol"
    ELSE Valid

RECURSIVE TrimLeft(_)
TrimLeft(s) ==
    IF s # <<>> /\ Head(s) = " " THEN TrimLeft(Tail(s)) ELSE s

RECURSIVE TrimRight(_)
TrimRight(s) ==
    IF s # <<>> /\ s[Len(s)] = " " THEN TrimRight(SubSeq(s, 1, Len(s) - 1)) ELSE s

\* String.prototype.trim
Trim(s) == TrimRight(TrimLeft(s))

\* String.prototype.substring(0, n)
Substring0(s, n) == IF Len(s) > n THEN SubSeq(s, 1, n) ELSE s

IsAngle(c) == c \in {"<", ">"}
NotAngle(c) == ~IsAngle(c)

validateTemplateName(name) ==
    IF name = <<>> THEN "Template name is required"
    ELSE IF Len(Trim(name)) = 0 THEN "Template name cannot be empty"
    ELSE IF Len(Trim(name)) > MAX_TEMPLATE_NAME_LENGTH
         THEN "Template name must be " \o ToString(MAX_TEMPLATE_NAME_LENGTH)
                \o " characters or less"
    ELSE Valid

validateTab(tab) ==
    IF validateUrl(tab.url) # Valid THEN validateUrl(tab.url)
    ELSE IF tab.title = "" THEN "Tab title is required"
    ELSE Valid

\* index of the first tab validateTab rejects, 0 when there is none
FirstInvalidTab(tabs) ==
    IF \E i \in 1..Len(tabs) : validateTab(tabs[i]) # Valid
    THEN CHOOSE i \in 1..Len(tabs) :
            /\ validateTab(tabs[i]) # Valid
            /\ \A j \in 1..(i - 1) : validateTab(tabs[j]) = Valid
    ELSE 0

isValidDate(ts) == ts # Null

validateTemplate(t) ==
    IF t.id = "" \/ t.id = NullId THEN "Template ID is required"
    ELSE IF validateTemplateName(t.name) # Valid THEN validateTemplateName(t.name)
    ELSE IF FirstInvalidTab(t.tabs) # 0
         THEN "Tab " \o ToString(FirstInvalidTab(t.tabs)) \o ": "
                \o validateTab(t.tabs[FirstInvalidTab(t.tabs)])
    ELSE IF ~isValidDate(t.createdAt) THEN "Invalid createdAt timestamp"
    ELSE IF t.lastUsedAt # Null /\ ~isValidDate(t.lastUsedAt)
         THEN "Invalid lastUsedAt timestamp"
    ELSE IF t.usageCount < 0 THEN "Invalid usage count"
    ELSE Valid

validateSettings(s) ==
    IF s.startupBehavior \notin {"none", "show_selector", "auto_launch"}
        THEN "Invalid startup behavior"
    ELSE IF s.openBehavior \notin {"new_window", "current_window", "replace_tabs"}
        THEN "Invalid open behavior"
    ELSE IF s.sortBy \notin {"name", "created", "lastUsed", "usageCount"}
        THEN "Invalid sort by value"
    ELSE IF s.sortOrder \notin {"asc", "desc"} THEN "Invalid sort order"
    ELSE IF s.theme \notin {"auto", "light", "dark"} THEN "Invalid theme"
    ELSE IF s.closeExistingTabs \notin BOOLEAN THEN "closeExistingTabs must be boolean"
    ELSE IF s.showFavicons \notin BOOLEAN THEN "showFavicons must be boolean"
    ELSE IF s.confirmDelete \notin BOOLEAN THEN "confirmDelete must be boolean"
    ELSE Valid

sanitizeTemplateName(name) ==
    SelectSeq(Substring0(Trim(name), MAX_TEMPLATE_NAME_LENGTH), NotAngle)

\* generateUUID: the n-th identifier handed out
generateUUID(n) == "g" \o ToString(n)

\* helpers.deepClone, JSON.parse(JSON.stringify(obj)): a null (Null, NullId)
\* survives, records and sequences are copied field by field
deepClone(list) ==
    [i \in 1..Len(list) |-> [f \in DOMAIN list[i] |-> list[i][f]]]

-----------------------------------------------------------------------------
(* Outcome of an operation: whether it resolved (ok) or threw (err), the    *)
(* template list it leaves in the store, its return value, the number of    *)
(* chrome.storage.sync.set calls it made and the host tab/window calls that *)
(* took effect.                                                              *)

Resolve(list, ret, writes, calls) ==
    [ok |-> TRUE, err |-> "", list |-> list, ret |-> ret,
     writes |-> writes, calls |-> calls]

Throw(list, err, writes, calls) ==
    [ok |-> FALSE, err |-> err, list |-> list, ret |-> Null,
     writes |-> writes, calls |-> calls]

\* { ...a, ...b }
Spread(a, b) ==
    [f \in (DOMAIN a) \cup (DOMAIN b) |-> IF f \in DOMAIN b THEN b[f] ELSE a[f]]

-----------------------------------------------------------------------------
(* StorageService (src/unnamed/part_002, lines 1-380) *)

\* stored is what chrome.storage.sync.get yields (an absent key reads as the
\* empty list); a rejected read is caught and answered with the empty list
StorageService_getTemplates(stored) ==
    IF stored = <<ReadFailed>> THEN <<>> ELSE deepClone(stored)

StorageService_getTemplate(stored, templateId) ==
    LET list == StorageService_getTemplates(stored)
        i == FindIndex(list, templateId)
    IN  IF i = 0 THEN NullTemplate ELSE list[i]

\* mutant: the list written holds the new template alone
saveTemplate_WritesOnlyNew(stored, template) ==
    IF validateTemplate(template) # Valid
    THEN Throw(stored, validateTemplate(template), 0, <<>>)
    ELSE Resolve(<<template>>, TRUE, 1, <<>>)

StorageService_saveTemplate(stored, template) ==
    IF validateTemplate(template) # Valid
    THEN Throw(stored, validateTemplate(template), 0, <<>>)
    ELSE Resolve(Append(StorageService_getTemplates(stored), template), TRUE, 1, <<>>)

\* mutant: the merged record is written without being validated again
updateTemplate_NoRevalidation(stored, templateId, updates) ==
    LET list == StorageService_getTemplates(stored)
        index == FindIndex(list, templateId)
    IN  IF index = 0 THEN Throw(stored, "Template not found", 0, <<>>)
        ELSE Resolve([list EXCEPT ![index] = Spread(list[index], updates)],
                     TRUE, 1, <<>>)

StorageService_updateTemplate(stored, templateId, updates) ==
    LET list == StorageService_getTemplates(stored)
        index == FindIndex(list, templateId)
        merged == Spread(list[index], updates)
    IN  IF index = 0 THEN Throw(stored, "Template not found", 0, <<>>)
        ELSE IF validateTemplate(merged) # Valid
             THEN Throw(stored, validateTemplate(merged), 0, <<>>)
        ELSE Resolve([list EXCEPT ![index] = merged], TRUE, 1, <<>>)

\* mutant: removal by splice(findIndex(...), 1), which drops the last entry when
\* the id is not found
deleteTemplate_Splice(stored, templateId) ==
    LET list == StorageService_getTemplates(stored)
        index == FindIndex(list, templateId)
        at == IF index = 0 THEN Len(list) ELSE index
    IN  Resolve(SubSeq(list, 1, at - 1) \o SubSeq(list, at + 1, Len(list)),
                TRUE, 1, <<>>)

StorageService_deleteTemplate(stored, templateId) ==
    LET list == StorageService_getTemplates(stored)
        Keep(t) == t.id # templateId
    IN  Resolve(SelectSeq(list, Keep), TRUE, 1, <<>>)

\* mutant: (usageCount || 0 + 1) parsed as usageCount || (0 + 1)
updateTemplateUsage_Precedence(stored, templateId, time) ==
    LET list == StorageService_getTemplates(stored)
        index == FindIndex(list, templateId)
    IN  IF index = 0 THEN Throw(stored, "Template not found", 0, <<>>)
        ELSE Resolve([list EXCEPT ![index] =
                        [@ EXCEPT !.lastUsedAt = time,
                                  !.usageCount = IF @ # 0 THEN @ ELSE 1]],
                     TRUE, 1, <<>>)

StorageService_updateTemplateUsage(stored, templateId, time) ==
    LET list == StorageService_getTemplates(stored)
        index == FindIndex(list, templateId)
    IN  IF index = 0 THEN Throw(stored, "Template not found", 0, <<>>)
        ELSE Resolve([list EXCEPT ![index] =
                        [@ EXCEPT !.lastUsedAt = time,
                                  !.usageCount = @ + 1]], TRUE, 1, <<>>)

StorageService_exportData(stored, time) ==
    [version |-> "1.0.0", exportedAt |-> time,
     templates |-> StorageService_getTemplates(stored)]

\* mutant: the merge appends every imported template, colliding ids included
importData_NoIdFilter(stored, importData, merge) ==
    IF "templates" \notin DOMAIN importData
    THEN Throw(stored, "Invalid import data format", 0, <<>>)
    ELSE IF merge
    THEN Resolve(StorageService_getTemplates(stored) \o importData.templates,
                 Len(importData.templates), 1, <<>>)
    ELSE Resolve(importData.templates, Len(importData.templates), 1, <<>>)

\* mutant: an imported template whose id is stored replaces the stored record
importData_Overwrite(stored, importData, merge) ==
    IF "templates" \notin DOMAIN importData
    THEN Throw(stored, "Invalid import data format", 0, <<>>)
    ELSE IF merge
    THEN LET list == StorageService_getTemplates(stored)
             existingIds == Ids(list)
             IsNew(t) == t.id \notin existingIds
             newTemplates == SelectSeq(importData.templates, IsNew)
             Latest(t) == IF t.id \in Ids(importData.templates)
                          THEN importData.templates[FindIndex(importData.templates, t.id)]
                          ELSE t
         IN  Resolve([i \in 1..Len(list) |-> Latest(list[i])] \o newTemplates,
                     Len(importData.templates), 1, <<>>)
    ELSE Resolve(importData.templates, Len(importData.templates), 1, <<>>)

\* a file with no templates array is a record without the templates field
StorageService_importData(stored, importData, merge) ==
    IF "templates" \notin DOMAIN importData
    THEN Throw(stored, "Invalid import data format", 0, <<>>)
    ELSE IF merge
    THEN LET list == StorageService_getTemplates(stored)
             existingIds == Ids(list)
             IsNew(t) == t.id \notin existingIds
             newTemplates == SelectSeq(importData.templates, IsNew)
         IN  Resolve(list \o newTemplates, Len(importData.templates), 1, <<>>)
    ELSE Resolve(importData.templates, Len(importData.templates), 1, <<>>)

StorageService_clearTemplates(stored) == Resolve(<<>>, TRUE, 1, <<>>)

-----------------------------------------------------------------------------
(* TabService (src/unnamed/part_001, lines 191-543).  A host call is a     *)
(* record [api, win, url, tab]; the browser assigns NewWindowId to the      *)
(* window chrome.windows.create makes, and CurrentWindowId is the focused   *)
(* window.  failAt = k > 0 makes the k-th host call of the operation        *)
(* reject; failAt = 0 lets every call succeed.                              *)

CurrentWindowId == 1
NewWindowId == 2

HostCall(api, win, url, tab) == [api |-> api, win |-> win, url |-> url, tab |-> tab]

\* chrome.tabs.create({windowId, url, active: false}) for each tab of the list
CreateCalls(tabs, win) ==
    [i \in 1..Len(tabs) |-> HostCall("tabs.create", win, tabs[i].url, 0)]

TabService_isValidUrl(url) ==
    /\ url[1] # ""
    /\ url[1] \notin {"chrome:", "chrome-extension:", "about:", "file:"}

TabService_filterValidTabs(tabs) ==
    LET Ok(tab) == TabService_isValidUrl(tab.url) IN SelectSeq(tabs, Ok)

\* chrome.tabs.query({currentWindow: true}) mapped to {url, title}, incognito
\* tabs dropped
TabService_getCurrentWindowTabs(window) ==
    LET Visible(tab) == ~tab.incognito
        shown == SelectSeq(window, Visible)
    IN  [i \in 1..Len(shown) |-> [url |-> shown[i].url, title |-> shown[i].title]]

\* mutant: the loop over the remaining tabs starts at index 0
openInNewWindowPlan_FromZero(tabs) ==
    <<HostCall("windows.create", NewWindowId, tabs[1].url, 0)>>
        \o CreateCalls(tabs, NewWindowId)

\* the host calls openInNewWindow issues, in order
openInNewWindowPlan(tabs) ==
    <<HostCall("windows.create", NewWindowId, tabs[1].url, 0)>>
        \o CreateCalls(Tail(tabs), NewWindowId)

openInCurrentWindowPlan(tabs) ==
    <<HostCall("windows.getCurrent", CurrentWindowId, U_empty, 0)>>
        \o CreateCalls(tabs, CurrentWindowId)

\* mutant: the pinned tabs are closed with the others
replaceTabsPlan_ClosesPinned(tabs, closeExisting, window) ==
    LET removes == [i \in 1..Len(window) |->
                      HostCall("tabs.remove", CurrentWindowId,
                               window[i].url, window[i].id)]
    IN  <<HostCall("windows.getCurrent", CurrentWindowId, U_empty, 0)>>
          \o (IF closeExisting
              THEN <<HostCall("tabs.query", CurrentWindowId, U_empty, 0)>> \o removes
              ELSE <<>>)
          \o CreateCalls(tabs, CurrentWindowId)

replaceTabsPlan(tabs, closeExisting, window) ==
    LET Unpinned(tab) == ~tab.pinned
        tabsToClose == SelectSeq(window, Unpinned)
        removes == [i \in 1..Len(tabsToClose) |->
                      HostCall("tabs.remove", CurrentWindowId,
                               tabsToClose[i].url, tabsToClose[i].id)]
    IN  <<HostCall("windows.getCurrent", CurrentWindowId, U_empty, 0)>>
          \o (IF closeExisting
              THEN <<HostCall("tabs.query", CurrentWindowId, U_empty, 0)>> \o removes
              ELSE <<>>)
          \o CreateCalls(tabs, CurrentWindowId)

\* index of the first tab whose URL validateUrl rejects, 0 when there is none
FirstInvalidUrl(tabs) ==
    IF \E i \in 1..Len(tabs) : validateUrl(tabs[i].url) # Valid
    THEN CHOOSE i \in 1..Len(tabs) :
            /\ validateUrl(tabs[i].url) # Valid
            /\ \A j \in 1..(i - 1) : validateUrl(tabs[j].url) = Valid
    ELSE 0

\* the host calls openTabs would issue if none failed; none when it throws
\* before its first host call
openTabsPlan(tabs, openBehavior, closeExisting, window) ==
    IF Len(tabs) = 0 \/ FirstInvalidUrl(tabs) # 0 THEN <<>>
    ELSE IF openBehavior = "new_window" THEN openInNewWindowPlan(tabs)
    ELSE IF openBehavior = "current_window" THEN openInCurrentWindowPlan(tabs)
    ELSE IF openBehavior = "replace_tabs"
         THEN replaceTabsPlan(tabs, closeExisting, window)
    ELSE <<>>

Effective(call) == call.api \in {"windows.create", "tabs.create", "tabs.remove"}

\* mutant: when a call is rejected the tabs created so far are closed again
RunPlan_RollsBack(plan, failAt, ret) ==
    LET done == SelectSeq(SubSeq(plan, 1, failAt - 1), Effective)
        Created(call) == call.api \in {"windows.create", "tabs.create"}
        made == SelectSeq(done, Created)
    IN  IF failAt = 0 \/ failAt > Len(plan)
        THEN [ok |-> TRUE, err |-> "", ret |-> ret, calls |-> SelectSeq(plan, Effective)]
        ELSE [ok |-> FALSE, err |-> "host: " \o plan[failAt].api, ret |-> Null,
              calls |-> done \o [i \in 1..Len(made) |->
                                   HostCall("tabs.remove", made[i].win, made[i].url, 0)]]

\* run a plan: the calls before the failing one take effect
RunPlan(plan, failAt, ret) ==
    IF failAt = 0 \/ failAt > Len(plan)
    THEN [ok |-> TRUE, err |-> "", ret |-> ret, calls |-> SelectSeq(plan, Effective)]
    ELSE [ok |-> FALSE, err |-> "host: " \o plan[failAt].api, ret |-> Null,
          calls |-> SelectSeq(SubSeq(plan, 1, failAt - 1), Effective)]

TabService_openInNewWindow(tabs, failAt) ==
    RunPlan(openInNewWindowPlan(tabs), failAt,
            [success |-> TRUE, openedTabs |-> Len(tabs), windowId |-> NewWindowId])

TabService_openInCurrentWindow(tabs, failAt) ==
    RunPlan(openInCurrentWindowPlan(tabs), failAt,
            [success |-> TRUE, openedTabs |-> Len(tabs), windowId |-> CurrentWindowId])

TabService_replaceTabs(tabs, closeExisting, window, failAt) ==
    RunPlan(replaceTabsPlan(tabs, closeExisting, window), failAt,
            [success |-> TRUE, openedTabs |-> Len(tabs), windowId |-> CurrentWindowId])

\* mutant: a rejected host call is logged and reported in the result, not rethrown
openTabs_SwallowsHostError(tabs, openBehavior, closeExisting, window, failAt) ==
    LET Caught(r) == IF r.ok THEN r
                     ELSE [ok |-> TRUE, err |-> "",
                           ret |-> [success |-> FALSE, openedTabs |-> 0,
                                    windowId |-> CurrentWindowId],
                           calls |-> r.calls]
    IN  IF Len(tabs) = 0
        THEN [ok |-> FALSE, err |-> "No tabs to open", ret |-> Null, calls |-> <<>>]
        ELSE IF FirstInvalidUrl(tabs) # 0
        THEN [ok |-> FALSE, err |-> "Invalid URL", ret |-> Null, calls |-> <<>>]
        ELSE IF openBehavior = "new_window"
             THEN Caught(TabService_openInNewWindow(tabs, failAt))
        ELSE IF openBehavior = "current_window"
             THEN Caught(TabService_openInCurrentWindow(tabs, failAt))
        ELSE IF openBehavior = "replace_tabs"
             THEN Caught(TabService_replaceTabs(tabs, closeExisting, window, failAt))
        ELSE [ok |-> FALSE, err |-> "Invalid open behavior", ret |-> Null,
              calls |-> <<>>]

\* mutant: each URL is validated just before its tab is opened, so the tabs
\* before the first invalid one are opened
openTabs_ValidatesLazily(tabs, openBehavior, closeExisting, window, failAt) ==
    LET first == FirstInvalidUrl(tabs)
        good == IF first = 0 THEN tabs ELSE SubSeq(tabs, 1, first - 1)
        run == IF openBehavior = "new_window" THEN TabService_openInNewWindow(good, failAt)
               ELSE IF openBehavior = "current_window"
                    THEN TabService_openInCurrentWindow(good, failAt)
               ELSE TabService_replaceTabs(good, closeExisting, window, failAt)
    IN  IF Len(tabs) = 0
        THEN [ok |-> FALSE, err |-> "No tabs to open", ret |-> Null, calls |-> <<>>]
        ELSE IF openBehavior \notin {"new_window", "current_window", "replace_tabs"}
        THEN [ok |-> FALSE, err |-> "Invalid open behavior", ret |-> Null,
              calls |-> <<>>]
        ELSE IF good = <<>>
        THEN [ok |-> FALSE, err |-> "Invalid URL", ret |-> Null, calls |-> <<>>]
        ELSE IF first # 0 /\ run.ok
        THEN [ok |-> FALSE, err |-> "Invalid URL", ret |-> Null, calls |-> run.calls]
        ELSE run

TabService_openTabs(tabs, openBehavior, closeExisting, window, failAt) ==
    IF Len(tabs) = 0
    THEN [ok |-> FALSE, err |-> "No tabs to open", ret |-> Null, calls |-> <<>>]
    ELSE IF FirstInvalidUrl(tabs) # 0
    THEN [ok |-> FALSE, err |-> "Invalid URL", ret |-> Null, calls |-> <<>>]
    ELSE IF openBehavior = "new_window" THEN TabService_openInNewWindow(tabs, failAt)
    ELSE IF openBehavior = "current_window"
         THEN TabService_openInCurrentWindow(tabs, failAt)
    ELSE IF openBehavior = "replace_tabs"
         THEN TabService_replaceTabs(tabs, closeExisting, window, failAt)
    ELSE [ok |-> FALSE, err |-> "Invalid open behavior", ret |-> Null, calls |-> <<>>]

-----------------------------------------------------------------------------
(* TemplateManager (src/unnamed/part_002, lines 381-815) *)

NewTemplate(id, name, tabs, time) ==
    [ id          |-> id,
      name        |-> sanitizeTemplateName(name),
      description |-> "",
      color       |-> DEFAULT_COLOR,
      icon        |-> DEFAULT_ICON,
      tabs        |-> tabs,
      createdAt   |-> time,
      lastUsedAt  |-> Null,
      usageCount  |-> 0 ]

TemplateManager_createFromCurrentTabs(stored, name, window, id, time) ==
    LET tabs == TabService_getCurrentWindowTabs(window)
        validTabs == TabService_filterValidTabs(tabs)
    IN  IF validateTemplateName(name) # Valid
        THEN Throw(stored, validateTemplateName(name), 0, <<>>)
        ELSE IF Len(tabs) = 0 THEN Throw(stored, "No tabs to save", 0, <<>>)
        ELSE IF Len(validTabs) = 0 THEN Throw(stored, "No valid tabs to save", 0, <<>>)
        ELSE StorageService_saveTemplate(stored, NewTemplate(id, name, validTabs, time))

TemplateManager_createEmpty(stored, name, id, time) ==
    IF validateTemplateName(name) # Valid
    THEN Throw(stored, validateTemplateName(name), 0, <<>>)
    ELSE StorageService_saveTemplate(stored, NewTemplate(id, name, <<>>, time))

\* updates with updates.name sanitized when a non-empty name is given
SanitizedUpdates(updates) ==
    IF "name" \in DOMAIN updates /\ updates.name # <<>>
    THEN [updates EXCEPT !.name = sanitizeTemplateName(updates.name)]
    ELSE updates

TemplateManager_updateTemplate(stored, templateId, updates) ==
    IF "name" \in DOMAIN updates /\ updates.name # <<>>
       /\ validateTemplateName(updates.name) # Valid
    THEN Throw(stored, validateTemplateName(updates.name), 0, <<>>)
    ELSE IF "tabs" \in DOMAIN updates /\ FirstInvalidTab(updates.tabs) # 0
    THEN Throw(stored, validateTab(updates.tabs[FirstInvalidTab(updates.tabs)]), 0, <<>>)
    ELSE StorageService_updateTemplate(stored, templateId, SanitizedUpdates(updates))

TemplateManager_deleteTemplate(stored, templateId) ==
    StorageService_deleteTemplate(stored, templateId)

CapacityError == "Maximum tabs per template"

\* mutant: the limit is compared with > in place of >=
addTab_OffByOne(stored, templateId, tab) ==
    LET template == StorageService_getTemplate(stored, templateId)
    IN  IF validateTab(tab) # Valid THEN Throw(stored, validateTab(tab), 0, <<>>)
        ELSE IF template = NullTemplate THEN Throw(stored, "Template not found", 0, <<>>)
        ELSE IF Len(template.tabs) > MAX_TABS THEN Throw(stored, CapacityError, 0, <<>>)
        ELSE StorageService_updateTemplate(stored, templateId,
                                           [tabs |-> Append(template.tabs, tab)])

TemplateManager_addTab(stored, templateId, tab) ==
    LET template == StorageService_getTemplate(stored, templateId)
    IN  IF validateTab(tab) # Valid THEN Throw(stored, validateTab(tab), 0, <<>>)
        ELSE IF template = NullTemplate THEN Throw(stored, "Template not found", 0, <<>>)
        ELSE IF Len(template.tabs) >= MAX_TABS THEN Throw(stored, CapacityError, 0, <<>>)
        ELSE StorageService_updateTemplate(stored, templateId,
                                           [tabs |-> Append(template.tabs, tab)])

\* Array.prototype.splice(tabIndex, 1), tabIndex counted from 0
Splice1(tabs, tabIndex) ==
    SubSeq(tabs, 1, tabIndex) \o SubSeq(tabs, tabIndex + 2, Len(tabs))

TemplateManager_removeTab(stored, templateId, tabIndex) ==
    LET template == StorageService_getTemplate(stored, templateId)
    IN  IF template = NullTemplate THEN Throw(stored, "Template not found", 0, <<>>)
        ELSE IF tabIndex < 0 \/ tabIndex >= Len(template.tabs)
             THEN Throw(stored, "Invalid tab index", 0, <<>>)
        ELSE StorageService_updateTemplate(stored, templateId,
                                           [tabs |-> Splice1(template.tabs, tabIndex)])

\* options after the defaults of launchTemplate are applied: an options object
\* without openBehavior is replaced by the stored settings
LaunchOptions(options, stgs) ==
    IF "openBehavior" \notin DOMAIN options
    THEN [openBehavior |-> stgs.openBehavior, closeExisting |-> stgs.closeExistingTabs]
    ELSE [openBehavior |-> options.openBehavior,
          closeExisting |-> IF "closeExisting" \in DOMAIN options
                            THEN options.closeExisting ELSE FALSE]

\* mutant: usage is recorded as soon as the template is found, before the tabs
\* are checked and opened
launchTemplate_UsageFirst(stored, stgs, templateId, options, window, failAt, time) ==
    LET template == StorageService_getTemplate(stored, templateId)
        opt == LaunchOptions(options, stgs)
        usage == StorageService_updateTemplateUsage(stored, templateId, time)
        result == TabService_openTabs(template.tabs, opt.openBehavior,
                                      opt.closeExisting, window, failAt)
    IN  IF template = NullTemplate THEN Throw(stored, "Template not found", 0, <<>>)
        ELSE IF Len(template.tabs) = 0
             THEN Throw(usage.list, "Template has no tabs", usage.writes, <<>>)
        ELSE IF ~result.ok THEN Throw(usage.list, result.err, usage.writes, result.calls)
        ELSE Resolve(usage.list, result.ret, usage.writes, result.calls)

TemplateManager_launchTemplate(stored, stgs, templateId, options, window, failAt, time) ==
    LET template == StorageService_getTemplate(stored, templateId)
        opt == LaunchOptions(options, stgs)
        result == TabService_openTabs(template.tabs, opt.openBehavior,
                                      opt.closeExisting, window, failAt)
        usage == StorageService_updateTemplateUsage(stored, templateId, time)
    IN  IF template = NullTemplate THEN Throw(stored, "Template not found", 0, <<>>)
        ELSE IF Len(template.tabs) = 0 THEN Throw(stored, "Template has no tabs", 0, <<>>)
        ELSE IF ~result.ok THEN Throw(stored, result.err, 0, result.calls)
        ELSE IF ~usage.ok THEN Throw(stored, usage.err, 0, result.calls)
        ELSE Resolve(usage.list, result.ret, usage.writes, result.calls)

TemplateManager_duplicateTemplate(stored, templateId, id, time) ==
    LET template == StorageService_getTemplate(stored, templateId)
        duplicate == Spread(template,
                            [ id         |-> id,
                              name       |-> template.name \o CopySuffix,
                              createdAt  |-> time,
                              lastUsedAt |-> Null,
                              usageCount |-> 0 ])
    IN  IF template = NullTemplate THEN Throw(stored, "Template not found", 0, <<>>)
        ELSE StorageService_saveTemplate(stored, duplicate)

TemplateManager_importTemplates(stored, importData, merge) ==
    StorageService_importData(stored, importData, merge)

-----------------------------------------------------------------------------
(* TemplateManager.getTemplates(options) and sortTemplates                  *)
(* (src/unnamed/part_002, lines 490-513 and 719-754).  Strings compare by   *)
(* UTF-16 code unit; CodeUnits lists the characters of the model's names in *)
(* that order.                                                               *)

CodeUnits ==
    <<" ", "(", ")", "<", ">",
      "A", "B", "C", "D", "E", "F", "G", "H", "I", "J", "K", "L", "M",
      "N", "O", "P", "Q", "R", "S", "T", "U", "V", "W", "X", "Y", "Z",
      "a", "b", "c", "d", "e", "f", "g", "h", "i", "j", "k", "l", "m",
      "n", "o", "p", "q", "r", "s", "t", "u", "v", "w", "x", "y", "z">>

CodeUnit(c) == CHOOSE i \in 1..Len(CodeUnits) : CodeUnits[i] = c

\* String.prototype.toLowerCase
toLowerCase(name) ==
    [i \in 1..Len(name) |->
        IF CodeUnit(name[i]) \in CodeUnit("A")..CodeUnit("Z")
        THEN CodeUnits[CodeUnit(name[i]) - CodeUnit("A") + CodeUnit("a")]
        ELSE name[i]]

\* a < b on strings
RECURSIVE StringLess(_, _)
StringLess(a, b) ==
    IF b = <<>> THEN FALSE
    ELSE IF a = <<>> THEN TRUE
    ELSE IF CodeUnit(Head(a)) # CodeUnit(Head(b))
         THEN CodeUnit(Head(a)) < CodeUnit(Head(b))
    ELSE StringLess(Tail(a), Tail(b))

\* String.prototype.includes
Includes(s, term) ==
    \E i \in 0..(Len(s) - Len(term)) : SubSeq(s, i + 1, i + Len(term)) = term

\* new Date(0), earlier than every timestamp of the model
Epoch == 0 - 1

SortFields == {"name", "created", "lastUsed", "usageCount"}

\* aValue / bValue of the comparator's switch
SortValue(t, sortBy) ==
    CASE sortBy = "name" -> toLowerCase(t.name)
      [] sortBy = "created" -> t.createdAt
      [] sortBy = "lastUsed" -> IF t.lastUsedAt # Null THEN t.lastUsedAt ELSE Epoch
      [] sortBy = "usageCount" -> t.usageCount

\* aValue < bValue
ValueLess(x, y, sortBy) == IF sortBy = "name" THEN StringLess(x, y) ELSE x < y

\* the comparator handed to Array.prototype.sort
Compare(a, b, sortBy, sortOrder) ==
    IF sortBy \notin SortFields THEN 0
    ELSE IF ValueLess(SortValue(a, sortBy), SortValue(b, sortBy), sortBy)
         THEN (IF sortOrder = "asc" THEN 0 - 1 ELSE 1)
    ELSE IF ValueLess(SortValue(b, sortBy), SortValue(a, sortBy), sortBy)
         THEN (IF sortOrder = "asc" THEN 1 ELSE 0 - 1)
    ELSE 0

\* a stable insertion: x goes behind every element that does not compare
\* greater than it
RECURSIVE InsertSorted(_, _, _, _)
InsertSorted(sorted, x, sortBy, sortOrder) ==
    IF sorted = <<>> THEN <<x>>
    ELSE IF Compare(sorted[Len(sorted)], x, sortBy, sortOrder) > 0
         THEN Append(InsertSorted(SubSeq(sorted, 1, Len(sorted) - 1), x,
                                  sortBy, sortOrder),
                     sorted[Len(sorted)])
    ELSE Append(sorted, x)

\* mutant: names are compared as they are written, upper case before lower
RECURSIVE sortTemplates_CaseSensitive(_, _, _)
sortTemplates_CaseSensitive(list, sortBy, sortOrder) ==
    LET Value(t) == IF sortBy = "name" THEN t.name ELSE SortValue(t, sortBy)
        Cmp(a, b) ==
            IF sortBy \notin SortFields THEN 0
            ELSE IF ValueLess(Value(a), Value(b), sortBy)
                 THEN (IF sortOrder = "asc" THEN 0 - 1 ELSE 1)
            ELSE IF ValueLess(Value(b), Value(a), sortBy)
                 THEN (IF sortOrder = "asc" THEN 1 ELSE 0 - 1)
            ELSE 0
        rest == sortTemplates_CaseSensitive(SubSeq(list, 1, Len(list) - 1),
                                            sortBy, sortOrder)
        x == list[Len(list)]
        Behind == {i \in 0..Len(rest) : \A j \in (i + 1)..Len(rest) : Cmp(rest[j], x) > 0}
        at == CHOOSE i \in Behind : \A k \in Behind : i <= k
    IN  IF list = <<>> THEN <<>>
        ELSE SubSeq(rest, 1, at) \o <<x>> \o SubSeq(rest, at + 1, Len(rest))

\* [...templates].sort(comparator): Array.prototype.sort is stable
RECURSIVE TemplateManager_sortTemplates(_, _, _)
TemplateManager_sortTemplates(list, sortBy, sortOrder) ==
    IF list = <<>> THEN <<>>
    ELSE InsertSorted(
             TemplateManager_sortTemplates(SubSeq(list, 1, Len(list) - 1),
                                           sortBy, sortOrder),
             list[Len(list)], sortBy, sortOrder)

\* options is a record with any of the fields sortBy, sortOrder, search; the
\* templates of the model carry no description, so the search looks at names
TemplateManager_getTemplates(stored, options) ==
    LET list == StorageService_getTemplates(stored)
        Matches(t) == Includes(toLowerCase(t.name), toLowerCase(options.search))
        found == IF "search" \in DOMAIN options /\ options.search # <<>>
                 THEN SelectSeq(list, Matches) ELSE list
    IN  IF "sortBy" \in DOMAIN options
        THEN TemplateManager_sortTemplates(
                 found, options.sortBy,
                 IF "sortOrder" \in DOMAIN options THEN options.sortOrder ELSE "desc")
        ELSE found

-----------------------------------------------------------------------------
(* Settings operations of StorageService and the StartupHandler             *)
(* (src/unnamed/part_000, lines 884-985)                                    *)

\* stgs is what chrome.storage.sync.get yields (an absent key reads as the
\* defaults); a rejected read is caught and answered with the defaults
StorageService_getSettings(stgs) ==
    IF stgs = ReadFailed THEN DEFAULT_SETTINGS ELSE stgs

\* mutant: the merged settings are written without being validated
updateSettings_NoValidation(stgs, updates) ==
    [ok |-> TRUE, err |-> "",
     settings |-> Spread(StorageService_getSettings(stgs), updates), writes |-> 1]

StorageService_updateSettings(stgs, updates) ==
    LET newSettings == Spread(StorageService_getSettings(stgs), updates)
    IN  IF validateSettings(newSettings) # Valid
        THEN [ok |-> FALSE, err |-> validateSettings(newSettings),
              settings |-> stgs, writes |-> 0]
        ELSE [ok |-> TRUE, err |-> "", settings |-> newSettings, writes |-> 1]

StorageService_resetSettings(stgs) ==
    [ok |-> TRUE, err |-> "", settings |-> DEFAULT_SETTINGS, writes |-> 1]

StartupPage == <<"chrome-extension:", "//quicksessions/startup/startup.html">>

\* showSelector: one chrome.tabs.create, a rejection is caught and logged
StartupHandler_showSelector(failAt) ==
    RunPlan(<<HostCall("tabs.create", CurrentWindowId, StartupPage, 0)>>, failAt, TRUE)

\* mutant: the timer is armed without looking the template up
autoLaunchDefault_NoLookup(stored, templateId) ==
    IF templateId = NullId THEN NullId ELSE templateId

\* autoLaunchDefault: the template id handed to setTimeout, NullId when the
\* method returns without arming the timer
StartupHandler_autoLaunchDefault(stored, templateId) ==
    IF templateId = NullId THEN NullId
    ELSE IF StorageService_getTemplate(stored, templateId) = NullTemplate THEN NullId
    ELSE templateId

\* handleStartup: [calls, timer]; every error is caught, nothing is thrown
StartupHandler_handleStartup(stored, stgs, failAt) ==
    LET s == StorageService_getSettings(stgs)
    IN  IF s.startupBehavior = "show_selector"
        THEN [calls |-> StartupHandler_showSelector(failAt).calls, timer |-> NullId]
        ELSE IF s.startupBehavior = "auto_launch"
        THEN [calls |-> <<>>,
              timer |-> StartupHandler_autoLaunchDefault(stored, s.defaultTemplateId)]
        ELSE [calls |-> <<>>, timer |-> NullId]

-----------------------------------------------------------------------------
(* Inputs the environment may supply *)

HostTab(id, url, title, pinned, incognito) ==
    [id |-> id, url |-> url, title |-> title, pinned |-> pinned, incognito |-> incognito]

W_work == <<HostTab(11, U_mail, "Mail", TRUE, FALSE),
            HostTab(12, U_chrome, "Settings", FALSE, FALSE)>>
W_mixed == <<HostTab(21, U_docs, "Docs", FALSE, FALSE),
             HostTab(22, U_ftp, "Files", FALSE, FALSE),
             HostTab(23, U_mail, "Mail", FALSE, TRUE)>>
W_internal == <<HostTab(31, U_chrome, "Settings", FALSE, FALSE)>>
W_pair == <<HostTab(41, U_mail, "Mail", FALSE, FALSE),
            HostTab(42, U_docs, "Docs", TRUE, FALSE)>>

\* a window holding one tab more than a template may hold
W_many == [i \in 1..(MAX_TABS + 1) |-> HostTab(50 + i, U_mail, "Mail", FALSE, FALSE)]

Windows == {W_work, W_mixed, W_internal, W_pair, W_many}

NameInputs == {N_Work, N_Angle, N_Empty}

\* (name, window) pairs handed to createFromCurrentTabs
CaptureInputs == ({N_Work} \X Windows) \cup {<<N_Empty, W_work>>}

TabInputs == {T_mail, T_docs, T_chrome, T_untitled}

IdInputs == Ids(templates) \cup {"missing"}

\* (id, x) pairs: every x for a stored id, one x for an id that is not stored
WithIds(xs, x0) == (Ids(templates) \X xs) \cup {<<"missing", x0>>}

NoOptions == <<>>

OptionInputs ==
    { NoOptions,
      [openBehavior |-> "new_window"],
      [openBehavior |-> "current_window"],
      [openBehavior |-> "replace_tabs"],
      [openBehavior |-> "replace_tabs", closeExisting |-> TRUE],
      [openBehavior |-> "tile"] }

UpdateInputs ==
    { [name |-> N_Mail],
      [tabs |-> <<T_ftp>>],
      [id |-> "x1"],
      [usageCount |-> 0, lastUsedAt |-> Null] }

\* templates of import files: X1 and X1b share an id, X2 holds a browser-internal
\* URL, X3 holds more tabs than MAX_TABS, X4 has a long name and was used before
\* it was exported
X1  == NewTemplate("x1", N_Work, <<T_mail>>, 0)
X1b == NewTemplate("x1", N_Mail, <<T_docs>>, 0)
X2  == NewTemplate("x2", N_Work, <<T_chrome>>, 0)
X3  == NewTemplate("x3", N_Work, [i \in 1..(MAX_TABS + 1) |-> T_mail], 0)
X4  == [NewTemplate("x4", N_Long, <<T_docs, T_mail>>, 0)
            EXCEPT !.lastUsedAt = 0, !.usageCount = 1]

ImportFile(list) == [version |-> "1.0.0", exportedAt |-> 0, templates |-> list]

NoTemplatesFile == [version |-> "1.0.0", exportedAt |-> 0]

\* (file, merge) pairs handed to importTemplates
ImportInputs ==
    ({ ImportFile(<<X1>>), ImportFile(<<X1b, X4>>), ImportFile(<<X1, X1b>>),
       ImportFile(<<X2>>), ImportFile(<<X3>>), ImportFile(<<X4>>),
       NoTemplatesFile } \X {TRUE})
    \cup ({ ImportFile(<<>>), ImportFile(<<X1b, X4>>) } \X {FALSE})

\* templates handed to StorageService.saveTemplate directly
SaveInputs ==
    { [NewTemplate(id, N_Work, <<T_mail>>, now)
            EXCEPT !.lastUsedAt = now, !.usageCount = 1] :
        id \in Ids(templates) \cup {"s1", ""} }

\* tabs handed to TabService.openTabs: the URL of T_garbage does not parse
T_garbage == [url |-> U_garbage, title |-> "Garbage"]

OpenInputs == {T_mail, T_ftp, T_garbage}

TabLists == UNION { [1..n -> OpenInputs] : n \in 0..MAX_TABS }

BehaviorInputs == {"new_window", "current_window", "replace_tabs", "tile"}

SettingsInputs ==
    { [startupBehavior |-> "show_selector"],
      [startupBehavior |-> "auto_launch", defaultTemplateId |-> "g1"],
      [startupBehavior |-> "auto_launch", defaultTemplateId |-> "missing"],
      [startupBehavior |-> "auto_launch", defaultTemplateId |-> NullId],
      [openBehavior |-> "replace_tabs", closeExistingTabs |-> TRUE,
       sortBy |-> "usageCount", sortOrder |-> "asc"],
      [startupBehavior |-> "always"],
      [openBehavior |-> "tile"],
      [sortBy |-> "size"],
      [sortOrder |-> "up"] }

-----------------------------------------------------------------------------
(* The state machine *)

NoInput == "-"

Init ==
    /\ templates = <<>>
    /\ settings = DEFAULT_SETTINGS
    /\ now = 0
    /\ nextId = 0
    /\ pending = NullId
    /\ ops = 0
    /\ keys = STORAGE_KEYS
    /\ flight = <<>>
    /\ last = [op |-> "init", id |-> NullId, arg |-> NoInput, window |-> <<>>,
               failAt |-> 0, ok |-> TRUE, err |-> "", ret |-> TRUE,
               calls |-> <<>>, writes |-> 0, pre |-> <<>>,
               preSettings |-> DEFAULT_SETTINGS, time |-> 0]

\* a template operation took place with outcome out
Commit(op, id, arg, window, failAt, out) ==
    /\ ops < MaxOps
    /\ Len(out.list) <= MaxTemplates
    /\ ops' = ops + 1
    /\ templates' = out.list
    /\ keys' = IF out.writes > 0 THEN keys \cup {TemplatesKey} ELSE keys
    /\ UNCHANGED flight
    /\ last' = [op |-> op, id |-> id, arg |-> arg, window |-> window,
                failAt |-> failAt, ok |-> out.ok, err |-> out.err, ret |-> out.ret,
                calls |-> out.calls, writes |-> out.writes, pre |-> templates,
                preSettings |-> settings, time |-> now]

\* time passes between two operations
Tick ==
    /\ ops < MaxOps
    /\ ops' = ops + 1
    /\ now' = now + 1
    /\ UNCHANGED <<templates, settings, nextId, pending, last, keys, flight>>

CreateEmpty ==
    \E name \in NameInputs :
        /\ Commit("createEmpty", generateUUID(nextId + 1), name, <<>>, 0,
                  TemplateManager_createEmpty(templates, name,
                                              generateUUID(nextId + 1), now))
        /\ nextId' = IF validateTemplateName(name) = Valid THEN nextId + 1 ELSE nextId
        /\ UNCHANGED <<settings, now, pending>>

CreateFromCurrentTabs ==
    \E in \in CaptureInputs :
      LET name == in[1]
          window == in[2]
      IN
        /\ Commit("createFromCurrentTabs", generateUUID(nextId + 1), name, window, 0,
                  TemplateManager_createFromCurrentTabs(templates, name, window,
                                                        generateUUID(nextId + 1), now))
        /\ nextId' = IF /\ validateTemplateName(name) = Valid
                        /\ TabService_filterValidTabs(
                               TabService_getCurrentWindowTabs(window)) # <<>>
                     THEN nextId + 1 ELSE nextId
        /\ UNCHANGED <<settings, now, pending>>

SaveTemplate ==
    \E template \in SaveInputs :
        /\ Commit("saveTemplate", template.id, template, <<>>, 0,
                  StorageService_saveTemplate(templates, template))
        /\ UNCHANGED <<settings, now, nextId, pending>>

UpdateTemplate ==
    \E in \in WithIds(UpdateInputs, [name |-> N_Mail]) :
      LET id == in[1]
          updates == in[2]
      IN
        /\ Commit("updateTemplate", id, updates, <<>>, 0,
                  TemplateManager_updateTemplate(templates, id, updates))
        /\ UNCHANGED <<settings, now, nextId, pending>>

\* mutant: deleting the default template also clears settings.defaultTemplateId
DeleteTemplate_ClearsDefault ==
    \E id \in IdInputs :
        /\ Commit("deleteTemplate", id, NoInput, <<>>, 0,
                  TemplateManager_deleteTemplate(templates, id))
        /\ settings' = IF settings.defaultTemplateId = id
                       THEN [settings EXCEPT !.defaultTemplateId = NullId]
                       ELSE settings
        /\ UNCHANGED <<now, nextId, pending>>

DeleteTemplate ==
    \E id \in IdInputs :
        /\ Commit("deleteTemplate", id, NoInput, <<>>, 0,
                  TemplateManager_deleteTemplate(templates, id))
        /\ UNCHANGED <<settings, now, nextId, pending>>

AddTab ==
    \E in \in WithIds(TabInputs, T_mail) :
      LET id == in[1]
          tab == in[2]
      IN
        /\ Commit("addTab", id, tab, <<>>, 0,
                  TemplateManager_addTab(templates, id, tab))
        /\ UNCHANGED <<settings, now, nextId, pending>>

RemoveTab ==
    \E in \in WithIds(0..MAX_TABS, 0) :
      LET id == in[1]
          tabIndex == in[2]
      IN
        /\ Commit("removeTab", id, tabIndex, <<>>, 0,
                  TemplateManager_removeTab(templates, id, tabIndex))
        /\ UNCHANGED <<settings, now, nextId, pending>>

\* the host calls a launch would issue, none when it throws before the first
LaunchPlan(stored, stgs, id, options, window) ==
    LET template == StorageService_getTemplate(stored, id)
        opt == LaunchOptions(options, stgs)
    IN  IF template = NullTemplate THEN <<>>
        ELSE openTabsPlan(template.tabs, opt.openBehavior, opt.closeExisting, window)

LaunchTemplate ==
    \E in \in WithIds(OptionInputs, NoOptions), window \in {W_work} :
      LET id == in[1]
          options == in[2]
      IN
        \E failAt \in 0..Len(LaunchPlan(templates, settings, id, options, window)) :
            /\ Commit("launchTemplate", id, options, window, failAt,
                      TemplateManager_launchTemplate(templates, settings, id, options,
                                                     window, failAt, now))
            /\ UNCHANGED <<settings, now, nextId, pending>>

DuplicateTemplate ==
    \E id \in IdInputs :
        /\ Commit("duplicateTemplate", id, generateUUID(nextId + 1), <<>>, 0,
                  TemplateManager_duplicateTemplate(templates, id,
                                                    generateUUID(nextId + 1), now))
        /\ nextId' = IF id \in Ids(templates) THEN nextId + 1 ELSE nextId
        /\ UNCHANGED <<settings, now, pending>>

ImportTemplates ==
    \E in \in ImportInputs :
      LET importData == in[1]
          merge == in[2]
      IN
        /\ Commit("importTemplates", NullId, [data |-> importData, merge |-> merge],
                  <<>>, 0,
                  TemplateManager_importTemplates(templates, importData, merge))
        /\ UNCHANGED <<settings, now, nextId, pending>>

\* exportData followed by importData(merge = true) of the exported file
ExportThenImport ==
    /\ Commit("exportThenImport", NullId, StorageService_exportData(templates, now),
              <<>>, 0,
              TemplateManager_importTemplates(
                  templates, StorageService_exportData(templates, now), TRUE))
    /\ UNCHANGED <<settings, now, nextId, pending>>

ClearTemplates ==
    /\ Commit("clearTemplates", NullId, NoInput, <<>>, 0,
              StorageService_clearTemplates(templates))
    /\ UNCHANGED <<settings, now, nextId, pending>>

\* a settings operation took place (the settings record has finitely many
\* values, so these operations need no budget)
CommitSettings(op, arg, out) ==
    /\ settings' = out.settings
    /\ last' = [op |-> op, id |-> NullId, arg |-> arg, window |-> <<>>,
                failAt |-> 0, ok |-> out.ok, err |-> out.err, ret |-> out.ok,
                calls |-> <<>>, writes |-> out.writes, pre |-> templates,
                preSettings |-> settings, time |-> now]
    /\ keys' = IF out.writes > 0 THEN keys \cup {SettingsKey} ELSE keys
    /\ UNCHANGED <<templates, now, nextId, pending, ops, flight>>

UpdateSettings ==
    \E updates \in SettingsInputs :
        CommitSettings("updateSettings", updates,
                       StorageService_updateSettings(settings, updates))

ResetSettings ==
    CommitSettings("resetSettings", NoInput, StorageService_resetSettings(settings))

\* the onStartup listener after initialize(): handleStartup runs to its end
HandleStartup ==
    \E failAt \in 0..1 :
        LET out == StartupHandler_handleStartup(templates, settings, failAt)
        IN  /\ pending = NullId
            /\ pending' = out.timer
            /\ last' = [op |-> "handleStartup", id |-> settings.defaultTemplateId,
                        arg |-> NoInput, window |-> <<>>, failAt |-> failAt,
                        ok |-> TRUE, err |-> "", ret |-> TRUE, calls |-> out.calls,
                        writes |-> 0, pre |-> templates, preSettings |-> settings,
                        time |-> now]
            /\ UNCHANGED <<templates, settings, now, nextId, ops, keys, flight>>

\* the setTimeout callback of autoLaunchDefault: launchTemplate(templateId) with
\* its error caught and logged
StartupTimer ==
    \E window \in {W_work} :
        \E failAt \in 0..Len(LaunchPlan(templates, settings, pending, NoOptions, window)) :
            LET out == TemplateManager_launchTemplate(templates, settings, pending,
                                                      NoOptions, window, failAt, now)
            IN  /\ pending # NullId
                /\ ops < MaxOps
                /\ ops' = ops + 1
                /\ pending' = NullId
                /\ templates' = out.list
                /\ last' = [op |-> "startupTimer", id |-> pending, arg |-> NoOptions,
                            window |-> window, failAt |-> failAt, ok |-> TRUE,
                            err |-> out.err, ret |-> out.ret, calls |-> out.calls,
                            writes |-> out.writes, pre |-> templates,
                            preSettings |-> settings, time |-> now]
                /\ keys' = IF out.writes > 0 THEN keys \cup {TemplatesKey} ELSE keys
                /\ UNCHANGED <<settings, now, nextId, flight>>

\* TabService.openTabs called on its own
OpenTabs ==
    \E tabs \in TabLists, openBehavior \in BehaviorInputs,
       closeExisting \in BOOLEAN, window \in {W_work, W_pair} :
        \E failAt \in 0..Len(openTabsPlan(tabs, openBehavior, closeExisting, window)) :
            LET out == TabService_openTabs(tabs, openBehavior, closeExisting,
                                           window, failAt)
            IN  /\ last' = [op |-> "openTabs", id |-> NullId,
                            arg |-> [tabs |-> tabs, openBehavior |-> openBehavior,
                                     closeExisting |-> closeExisting],
                            window |-> window, failAt |-> failAt, ok |-> out.ok,
                            err |-> out.err, ret |-> out.ret, calls |-> out.calls,
                            writes |-> 0, pre |-> templates,
                            preSettings |-> settings, time |-> now]
                /\ UNCHANGED <<templates, settings, now, nextId, pending, ops,
                               keys, flight>>

\* the template store under the operations of StorageService and TemplateManager
Next ==
    \/ Tick
    \/ CreateEmpty
    \/ CreateFromCurrentTabs
    \/ SaveTemplate
    \/ UpdateTemplate
    \/ DeleteTemplate
    \/ AddTab
    \/ RemoveTab
    \/ DuplicateTemplate
    \/ ImportTemplates
    \/ ExportThenImport
    \/ ClearTemplates

Spec == Init /\ [][Next]_vars

\* building templates and launching them
NextLaunch ==
    \/ Tick
    \/ CreateEmpty
    \/ CreateFromCurrentTabs
    \/ AddTab
    \/ UpdateTemplate
    \/ ImportTemplates
    \/ LaunchTemplate

SpecLaunch == Init /\ [][NextLaunch]_vars

\* settings and the startup hook, with templates coming and going
NextStartup ==
    \/ CreateFromCurrentTabs
    \/ DeleteTemplate
    \/ ClearTemplates
    \/ UpdateSettings
    \/ ResetSettings
    \/ HandleStartup
    \/ StartupTimer

SpecStartup == Init /\ [][NextStartup]_vars

\* the tab gateway on its own
NextTabs == OpenTabs

SpecTabs == Init /\ [][NextTabs]_vars

-----------------------------------------------------------------------------
(* Surfaces.  The background service worker, the popup and the options page *)
(* each hold their own StorageService over the one chrome.storage.sync      *)
(* area.  An operation reads the area at one moment and writes it at a      *)
(* later one; the operations of other surfaces, and further operations of   *)
(* the same surface, may read and write in between.  An entry of flight is  *)
(* an operation that has read and not yet finished:                         *)
(* [surface, op, id, arg, read, readSettings, todo, time], with read the    *)
(* answer of the template-list read, readSettings the answer of the         *)
(* settings read and todo the keys initialize() found absent.               *)

MaxFlight == 2

\* chrome.storage.sync.get([TEMPLATES, SETTINGS, VERSION]) of initialize():
\* the keys it will write, in the order it writes them
MissingKeys(present) ==
    LET Absent(k) == k \notin present
    IN  SelectSeq(<<TemplatesKey, SettingsKey, VersionKey>>, Absent)

\* the read of StorageService.initialize(); a rejected read returns false, and
\* with every key present it returns true without a write
InitializeRead ==
    \E readOk \in BOOLEAN :
        /\ ops < MaxOps
        /\ ops' = ops + 1
        /\ IF readOk /\ MissingKeys(keys) # <<>>
           THEN /\ Len(flight) < MaxFlight
                /\ flight' = Append(flight,
                       [surface |-> "background", op |-> "initialize",
                        id |-> NullId, arg |-> keys, read |-> <<>>,
                        readSettings |-> DEFAULT_SETTINGS,
                        todo |-> MissingKeys(keys), time |-> now])
                /\ UNCHANGED last
           ELSE /\ last' = [op |-> "initialize", id |-> NullId,
                            arg |-> [read |-> keys, keys |-> keys,
                                     readOk |-> readOk],
                            window |-> <<>>, failAt |-> 0, ok |-> TRUE,
                            err |-> "", ret |-> readOk, calls |-> <<>>,
                            writes |-> 0, pre |-> templates,
                            preSettings |-> settings, time |-> now]
                /\ UNCHANGED flight
        /\ UNCHANGED <<templates, settings, now, nextId, pending, keys>>

RemoveAt(s, i) == SubSeq(s, 1, i - 1) \o SubSeq(s, i + 1, Len(s))

\* the next chrome.storage.sync.set of initialize(), decided by what it read
InitializeStep ==
    \E i \in 1..Len(flight) :
        LET f == flight[i]
            key == Head(f.todo)
        IN  /\ f.op = "initialize"
            /\ templates' = IF key = TemplatesKey THEN <<>> ELSE templates
            /\ settings' = IF key = SettingsKey THEN DEFAULT_SETTINGS ELSE settings
            /\ keys' = keys \cup {key}
            /\ flight' = IF Tail(f.todo) = <<>> THEN RemoveAt(flight, i)
                         ELSE [flight EXCEPT ![i].todo = Tail(f.todo)]
            /\ last' = [op |-> "initialize", id |-> NullId,
                        arg |-> [read |-> f.arg, keys |-> keys, readOk |-> TRUE],
                        window |-> <<>>, failAt |-> 0, ok |-> TRUE, err |-> "",
                        ret |-> (Tail(f.todo) = <<>>), calls |-> <<>>,
                        writes |-> 1, pre |-> templates,
                        preSettings |-> settings, time |-> now]
            /\ UNCHANGED <<now, nextId, pending, ops>>

\* the user actions and background events that start a storage mutation
Requests ==
    {[surface |-> "popup", op |-> "createFromCurrentTabs",
      id |-> generateUUID(nextId + 1), arg |-> [name |-> N_Work, window |-> W_work]]}
    \cup {[surface |-> "popup", op |-> "deleteTemplate", id |-> id, arg |-> [id |-> id]] :
            id \in IdInputs}
    \cup {[surface |-> "popup", op |-> "updateTemplate", id |-> id,
           arg |-> [name |-> N_Mail]] : id \in Ids(templates)}
    \cup {[surface |-> "background", op |-> "updateTemplateUsage", id |-> id,
           arg |-> [id |-> id]] : id \in Ids(templates)}
    \cup {[surface |-> "options", op |-> "importTemplates", id |-> NullId,
           arg |-> [data |-> ImportFile(<<X1>>), merge |-> TRUE]]}
    \cup {[surface |-> "options", op |-> "updateSettings", id |-> NullId,
           arg |-> [sortBy |-> "usageCount", sortOrder |-> "asc"]]}

\* an operation starts and runs up to the answer of its chrome.storage.sync.get
Begin ==
    \E r \in Requests, readOk \in BOOLEAN :
        /\ ops < MaxOps
        /\ Len(flight) < MaxFlight
        /\ ops' = ops + 1
        /\ nextId' = IF r.op = "createFromCurrentTabs" THEN nextId + 1 ELSE nextId
        /\ flight' = Append(flight,
               [surface |-> r.surface, op |-> r.op, id |-> r.id, arg |-> r.arg,
                read |-> IF r.op = "updateSettings" THEN <<>>
                         ELSE IF readOk THEN templates ELSE <<ReadFailed>>,
                readSettings |-> IF r.op # "updateSettings" THEN DEFAULT_SETTINGS
                                 ELSE IF readOk THEN settings ELSE ReadFailed,
                todo |-> <<>>, time |-> now])
        /\ UNCHANGED <<templates, settings, now, pending, keys, last>>

\* the rest of an operation, computed from what it read
Outcome(f) ==
    CASE f.op = "createFromCurrentTabs" ->
            TemplateManager_createFromCurrentTabs(f.read, f.arg.name, f.arg.window,
                                                  f.id, f.time)
      [] f.op = "deleteTemplate" -> TemplateManager_deleteTemplate(f.read, f.id)
      [] f.op = "updateTemplate" -> TemplateManager_updateTemplate(f.read, f.id, f.arg)
      [] f.op = "updateTemplateUsage" ->
            StorageService_updateTemplateUsage(f.read, f.id, f.time)
      [] f.op = "importTemplates" ->
            TemplateManager_importTemplates(f.read, f.arg.data, f.arg.merge)

\* an operation in flight runs to its end: its chrome.storage.sync.set, if it
\* makes one, replaces the stored value whatever that has become
Finish ==
    \E i \in 1..Len(flight) :
        LET f == flight[i]
            record(ok, err, ret, writes) ==
                [op |-> f.op, id |-> f.id,
                 arg |-> [in |-> f.arg, surface |-> f.surface, read |-> f.read,
                          readSettings |-> f.readSettings],
                 window |-> <<>>, failAt |-> 0, ok |-> ok, err |-> err,
                 ret |-> ret, calls |-> <<>>, writes |-> writes,
                 pre |-> templates, preSettings |-> settings, time |-> now]
        IN  /\ f.op # "initialize"
            /\ flight' = RemoveAt(flight, i)
            /\ IF f.op = "updateSettings"
               THEN LET out == StorageService_updateSettings(f.readSettings, f.arg)
                    IN  /\ settings' = IF out.writes > 0 THEN out.settings ELSE settings
                        /\ keys' = IF out.writes > 0 THEN keys \cup {SettingsKey} ELSE keys
                        /\ last' = record(out.ok, out.err, out.ok, out.writes)
                        /\ UNCHANGED templates
               ELSE LET out == Outcome(f)
                    IN  /\ templates' = IF out.writes > 0 THEN out.list ELSE templates
                        /\ keys' = IF out.writes > 0 THEN keys \cup {TemplatesKey} ELSE keys
                        /\ last' = record(out.ok, out.err, out.ret, out.writes)
                        /\ UNCHANGED settings
            /\ UNCHANGED <<now, nextId, pending, ops>>

\* chrome.storage.sync.QUOTA_BYTES, the value the browser defines
QUOTA_BYTES == 102400

\* the reads of StorageService; getStorageInfo is answered bytesInUse by the host
ReadStore ==
    \E op \in {"getTemplates", "getTemplate", "getSettings", "getStorageInfo"},
       readOk \in BOOLEAN, id \in IdInputs, bytesInUse \in {0, QUOTA_BYTES} :
        LET got == IF readOk THEN templates ELSE <<ReadFailed>>
            gotSettings == IF readOk THEN settings ELSE ReadFailed
            ret == CASE op = "getTemplates" -> StorageService_getTemplates(got)
                     [] op = "getTemplate" -> StorageService_getTemplate(got, id)
                     [] op = "getSettings" -> StorageService_getSettings(gotSettings)
                     [] op = "getStorageInfo" ->
                            IF readOk
                            THEN [bytesInUse |-> bytesInUse, quota |-> QUOTA_BYTES,
                                  percentUsed |-> (bytesInUse * 100) \div QUOTA_BYTES,
                                  available |-> QUOTA_BYTES - bytesInUse]
                            ELSE NullTemplate
        IN  /\ op # "getTemplate" => id = "missing"
            /\ op # "getStorageInfo" => bytesInUse = 0
            /\ ops < MaxOps
            /\ ops' = ops + 1
            /\ last' = [op |-> op, id |-> IF op = "getTemplate" THEN id ELSE NullId,
                        arg |-> [readOk |-> readOk], window |-> <<>>, failAt |-> 0,
                        ok |-> TRUE, err |-> "", ret |-> ret, calls |-> <<>>,
                        writes |-> 0, pre |-> templates, preSettings |-> settings,
                        time |-> now]
            /\ UNCHANGED <<templates, settings, now, nextId, pending, keys, flight>>

\* a profile on which the extension has just been installed, or one that it
\* has initialized before
InitSurfaces ==
    /\ templates = <<>>
    /\ settings = DEFAULT_SETTINGS
    /\ now = 0
    /\ nextId = 0
    /\ pending = NullId
    /\ ops = 0
    /\ keys \in {{}, STORAGE_KEYS}
    /\ flight = <<>>
    /\ last = [op |-> "init", id |-> NullId, arg |-> NoInput, window |-> <<>>,
               failAt |-> 0, ok |-> TRUE, err |-> "", ret |-> TRUE,
               calls |-> <<>>, writes |-> 0, pre |-> <<>>,
               preSettings |-> DEFAULT_SETTINGS, time |-> 0]

\* the surfaces over the one storage area, their operations interleaved
NextSurfaces ==
    \/ InitializeRead
    \/ InitializeStep
    \/ Begin
    \/ Finish
    \/ ReadStore

SpecSurfaces == InitSurfaces /\ [][NextSurfaces]_vars

-----------------------------------------------------------------------------
(* Listing the templates.  The stored list is set by an import that         *)
(* replaces it; the samples tie on every sort key: S_Beta and S_beta in the *)
(* name without case and in createdAt, S_Zeta and S_beta in lastUsedAt,     *)
(* S_alpha and S_beta in usageCount.                                         *)

S_Zeta  == NewTemplate("z", <<"Z", "e", "t", "a">>, <<T_mail>>, 0)
S_alpha == [NewTemplate("a", <<"a", "l", "p", "h", "a">>, <<T_mail>>, 1)
                EXCEPT !.lastUsedAt = 2, !.usageCount = 1]
S_Beta  == [NewTemplate("b", <<"B", "e", "t", "a">>, <<T_docs>>, 2)
                EXCEPT !.lastUsedAt = 1, !.usageCount = 2]
S_beta  == [NewTemplate("c", <<"b", "e", "t", "a">>, <<T_docs>>, 2)
                EXCEPT !.usageCount = 1]

SortSamples == {S_Zeta, S_alpha, S_Beta, S_beta}

\* the lists of distinct samples
SampleLists ==
    UNION { {l \in [1..n -> SortSamples] : \A i, j \in 1..n : l[i] = l[j] => i = j} :
            n \in 0..MaxTemplates }

QueryInputs ==
    {NoOptions, [sortBy |-> "name"], [search |-> <<"B", "E">>],
     [sortBy |-> "name", sortOrder |-> "asc", search |-> <<"e", "t">>]}
    \cup [sortBy : SortFields \cup {"size"}, sortOrder : {"asc", "desc"}]

ImportSamples ==
    \E list \in SampleLists :
        /\ Commit("importTemplates", NullId,
                  [data |-> ImportFile(list), merge |-> FALSE], <<>>, 0,
                  TemplateManager_importTemplates(templates, ImportFile(list), FALSE))
        /\ UNCHANGED <<settings, now, nextId, pending>>

GetTemplates ==
    \E options \in QueryInputs :
        /\ last' = [op |-> "getTemplates", id |-> NullId, arg |-> options,
                    window |-> <<>>, failAt |-> 0, ok |-> TRUE, err |-> "",
                    ret |-> TemplateManager_getTemplates(templates, options),
                    calls |-> <<>>, writes |-> 0, pre |-> templates,
                    preSettings |-> settings, time |-> now]
        /\ UNCHANGED <<templates, settings, now, nextId, pending, ops, keys, flight>>

\* the popup and the options page listing the stored templates
NextSort ==
    \/ ImportSamples
    \/ GetTemplates

SpecSort == Init /\ [][NextSort]_vars

-----------------------------------------------------------------------------
(* Observations shared by the properties *)

\* the template the last operation named, before and after it
Before == StorageService_getTemplate(last.pre, last.id)
After == StorageService_getTemplate(templates, last.id)

Launched == last.op = "launchTemplate"

\* the options the last launch ran with
LaunchedWith == LaunchOptions(last.arg, last.preSettings)

\* usageCount and lastUsedAt of every stored template are as before
UsageUntouched ==
    /\ Len(templates) = Len(last.pre)
    /\ \A i \in 1..Len(templates) :
          /\ templates[i].id = last.pre[i].id
          /\ templates[i].usageCount = last.pre[i].usageCount
          /\ templates[i].lastUsedAt = last.pre[i].lastUsedAt

-----------------------------------------------------------------------------
(* Launching *)

C2_EmptyTemplateNotLaunched ==
    (Launched /\ Before # NullTemplate /\ Before.tabs = <<>>) =>
        /\ ~last.ok
        /\ last.calls = <<>>
        /\ After.usageCount = Before.usageCount
        /\ After.lastUsedAt = Before.lastUsedAt

\* an empty template was launched, whatever the options
C2_Witness ==
    /\ Launched /\ Before # NullTemplate /\ Before.tabs = <<>>
    /\ ~last.ok
    /\ "openBehavior" \in DOMAIN last.arg

\* the causes of failure the claim lists, read off the inputs of the last launch
LaunchMustFail ==
    \/ Before = NullTemplate
    \/ Before.tabs = <<>>
    \/ \E i \in 1..Len(Before.tabs) : Before.tabs[i].url[1] \notin {"http:", "https:"}
    \/ LaunchedWith.openBehavior \notin {"new_window", "current_window", "replace_tabs"}
    \/ last.failAt > 0

\* C3: a launchTemplate(id) that meets an unknown id, an invalid URL, an invalid
\* open behaviour or a failing host call throws, and whenever launchTemplate
\* throws no stored template has its usageCount or lastUsedAt changed.
C3_FailedLaunchRecordsNothing ==
    Launched =>
        /\ LaunchMustFail => (~last.ok /\ last.err # "")
        /\ ~last.ok => (UsageUntouched /\ last.writes = 0)

\* a host call failed after earlier ones had opened something
C3_Witness ==
    /\ Launched /\ ~last.ok
    /\ last.failAt > 1
    /\ last.calls # <<>>
    /\ Len(templates) > 1

\* C8: a launch under new_window of a template with n >= 1 valid tabs, with no
\* host call failing, creates one window on tabs[0].url, then tabs[1..n-1] in
\* that window in template order, returns openedTabs = n with that window's id
\* and leaves usageCount one higher.
C8_NewWindowLaunch ==
    ( /\ Launched
      /\ LaunchedWith.openBehavior = "new_window"
      /\ Before # NullTemplate
      /\ Len(Before.tabs) >= 1
      /\ \A i \in 1..Len(Before.tabs) : Before.tabs[i].url[1] \in {"http:", "https:"}
      /\ last.failAt = 0 ) =>
        /\ last.ok
        /\ Len(last.calls) = Len(Before.tabs)
        /\ last.calls[1].api = "windows.create"
        /\ last.calls[1].url = Before.tabs[1].url
        /\ \A i \in 2..Len(Before.tabs) :
              /\ last.calls[i].api = "tabs.create"
              /\ last.calls[i].win = last.calls[1].win
              /\ last.calls[i].url = Before.tabs[i].url
        /\ last.ret.openedTabs = Len(Before.tabs)
        /\ last.ret.windowId = last.calls[1].win
        /\ After.usageCount = Before.usageCount + 1

\* a template holding the one tab Mail, never used, is launched in a new window
C8_Witness ==
    /\ Launched /\ last.ok
    /\ LaunchedWith.openBehavior = "new_window"
    /\ Before.tabs = <<T_mail>> /\ Before.name = N_Work /\ Before.usageCount = 0
    /\ Len(last.calls) = 1
    /\ After.usageCount = 1

-----------------------------------------------------------------------------
(* The template store *)

\* C4: deleteTemplate(id) never throws; with an id that is not stored it leaves
\* the list as it was, and with a stored id it leaves exactly the templates
\* with another id, in their order.
C4_DeleteRemovesOnlyThatId ==
    last.op = "deleteTemplate" =>
        /\ last.ok
        /\ last.id \notin Ids(last.pre) => templates = last.pre
        /\ last.id \notin Ids(templates)
        /\ \E keep \in SUBSET (1..Len(last.pre)) :
              /\ keep = { i \in 1..Len(last.pre) : last.pre[i].id # last.id }
              /\ Len(templates) = Cardinality(keep)
              /\ \A k \in 1..Len(templates) :
                    \E i \in keep :
                        /\ Cardinality({ j \in keep : j <= i }) = k
                        /\ templates[k] = last.pre[i]

\* a template was deleted from between two others
C4_Witness ==
    /\ last.op = "deleteTemplate"
    /\ Len(last.pre) = 3
    /\ last.pre[2].id = last.id
    /\ templates = <<last.pre[1], last.pre[3]>>

\* the tab list of the template the last addTab named has not changed
TabsUntouched == After # NullTemplate /\ After.tabs = Before.tabs

\* C5 as stated: addTab on a template holding MAX_TABS tabs fails with the
\* capacity error and leaves the tab list unchanged; with fewer tabs and a valid
\* tab it appends the tab at the end.
C5_AsStated ==
    (last.op = "addTab" /\ Before # NullTemplate) =>
        /\ Len(Before.tabs) >= MAX_TABS =>
              (~last.ok /\ last.err = CapacityError /\ TabsUntouched)
        /\ (Len(Before.tabs) < MAX_TABS /\ validateTab(last.arg) = Valid) =>
              (last.ok /\ After.tabs = Append(Before.tabs, last.arg))

\* C5 (amended): addTab on a template holding MAX_TABS tabs or more always fails
\* and leaves the tab list unchanged, with the capacity error when the tab is
\* valid and with the tab's validation error otherwise; with fewer tabs and a
\* valid tab it appends the tab at the end when the stored record with the new
\* tab passes validateTemplate, and otherwise fails with the store unchanged.
C5_AddTabCapacity ==
    (last.op = "addTab" /\ Before # NullTemplate) =>
        /\ Len(Before.tabs) >= MAX_TABS =>
              /\ ~last.ok
              /\ TabsUntouched
              /\ validateTab(last.arg) = Valid => last.err = CapacityError
              /\ validateTab(last.arg) # Valid => last.err = validateTab(last.arg)
        /\ (Len(Before.tabs) < MAX_TABS /\ validateTab(last.arg) = Valid) =>
              IF validateTemplate([Before EXCEPT !.tabs = Append(@, last.arg)]) = Valid
              THEN last.ok /\ After.tabs = Append(Before.tabs, last.arg)
              ELSE ~last.ok /\ templates = last.pre

\* a valid tab was refused by a template holding exactly MAX_TABS tabs
C5_Witness ==
    /\ last.op = "addTab" /\ Before # NullTemplate
    /\ Len(Before.tabs) = MAX_TABS
    /\ validateTab(last.arg) = Valid
    /\ last.err = CapacityError

\* C6: importData(exportData(), merge = true) on the same store resolves and
\* leaves the stored list as it was: same templates, same order, none added.
C6_ExportImportIdempotent ==
    last.op = "exportThenImport" =>
        /\ last.ok
        /\ templates = last.pre

\* a store of several templates was exported and imported back
C6_Witness ==
    /\ last.op = "exportThenImport"
    /\ last.ok
    /\ Len(last.arg.templates) >= 2
    /\ last.ret = Len(last.arg.templates)

\* C7: after saveTemplate(T) succeeds getTemplate(T.id) returns a record equal
\* to T, and getTemplate of an id that is not stored returns null.
C7_SaveThenGet ==
    /\ (last.op = "saveTemplate" /\ last.ok) =>
          StorageService_getTemplate(templates, last.arg.id) = last.arg
    /\ \A id \in {"missing", "s1", "x1", "g1"} \ Ids(templates) :
          StorageService_getTemplate(templates, id) = NullTemplate

\* C10: no two templates of the stored list have the same id.
C10_UniqueIds == UniqueIds(templates)

-----------------------------------------------------------------------------
(* The startup hook *)

\* the settings handleStartup read select no launch: behaviour none, or
\* auto_launch with no default template or one that is not stored
NothingToLaunch ==
    \/ last.preSettings.startupBehavior = "none"
    \/ /\ last.preSettings.startupBehavior = "auto_launch"
       /\ \/ last.preSettings.defaultTemplateId = NullId
          \/ last.preSettings.defaultTemplateId \notin Ids(last.pre)

\* C9: handleStartup under startupBehavior none, or under auto_launch with a
\* null defaultTemplateId or one naming no stored template, makes no host tab
\* or window call, writes nothing to storage, arms no launch timer and returns
\* without throwing.
C9_StartupWithoutDefault ==
    (last.op = "handleStartup" /\ NothingToLaunch) =>
        /\ last.ok
        /\ last.calls = <<>>
        /\ last.writes = 0
        /\ pending = NullId
        /\ templates = last.pre
        /\ settings = last.preSettings

\* startup with auto_launch after the default template g1 was deleted
C9_Witness ==
    /\ last.op = "handleStartup"
    /\ last.preSettings.startupBehavior = "auto_launch"
    /\ last.preSettings.defaultTemplateId = "g1"
    /\ nextId >= 1
    /\ "g1" \notin Ids(templates)

-----------------------------------------------------------------------------
(* Invariants of the stored records *)

\* C11: every stored template holds at most MAX_TABS tabs.
C11_TabsBounded ==
    \A i \in 1..Len(templates) : Len(templates[i].tabs) <= MAX_TABS

\* the enumerated fields of a settings record hold values of their enumerations
EnumsValid(s) ==
    /\ {"startupBehavior", "openBehavior", "sortBy", "sortOrder"} \subseteq DOMAIN s
    /\ s.startupBehavior \in {"none", "show_selector", "auto_launch"}
    /\ s.openBehavior \in {"new_window", "current_window", "replace_tabs"}
    /\ s.sortBy \in {"name", "created", "lastUsed", "usageCount"}
    /\ s.sortOrder \in {"asc", "desc"}

-----------------------------------------------------------------------------
(* Histories of the stored records: the last operation's effect on every    *)
(* template that was stored before it and is stored after it                *)

\* ids stored before and after the last operation
Surviving == Ids(last.pre) \cap Ids(templates)

Was(id) == StorageService_getTemplate(last.pre, id)
Is(id) == StorageService_getTemplate(templates, id)

\* C13: usageCount is never negative and never decreases; lastUsedAt never moves
\* back to null or to an earlier time, and leaves null only through a
\* successful launch of that template.
C13_UsageMonotone ==
    /\ \A i \in 1..Len(templates) : templates[i].usageCount >= 0
    /\ \A id \in Surviving :
          /\ Is(id).usageCount >= Was(id).usageCount
          /\ Is(id).lastUsedAt >= Was(id).lastUsedAt
          /\ (Was(id).lastUsedAt = Null /\ Is(id).lastUsedAt # Null) =>
                (last.op = "launchTemplate" /\ last.ok /\ last.id = id)

\* C14: updateTemplate, addTab, removeTab and the usage update of a launch
\* leave the id and the createdAt of every stored template as they were.
C14_IdentityImmutable ==
    last.op \in {"updateTemplate", "addTab", "removeTab", "launchTemplate"} =>
        /\ Len(templates) = Len(last.pre)
        /\ \A i \in 1..Len(templates) :
              /\ templates[i].id = last.pre[i].id
              /\ templates[i].createdAt = last.pre[i].createdAt

\* C15: every tab of every stored template has an http or https URL and a
\* non-empty title.
C15_StoredTabsValid ==
    \A i \in 1..Len(templates) :
        \A j \in 1..Len(templates[i].tabs) :
            /\ templates[i].tabs[j].url[1] \in {"http:", "https:"}
            /\ templates[i].tabs[j].title # ""

-----------------------------------------------------------------------------
(* Creating and importing *)

\* the tabs of the captured window that survive filterValidTabs
Survivors == TabService_filterValidTabs(TabService_getCurrentWindowTabs(last.window))

\* C16: createFromCurrentTabs with a valid name and at least one surviving tab
\* succeeds and appends one template holding the surviving tabs in window
\* order, with usageCount 0 and lastUsedAt null; it fails only when the name is
\* invalid or no tab survives.
C16_CreateFromCurrentTabs ==
    last.op = "createFromCurrentTabs" =>
        /\ (validateTemplateName(last.arg) = Valid /\ Survivors # <<>>) =>
              /\ last.ok
              /\ Len(templates) = Len(last.pre) + 1
              /\ SubSeq(templates, 1, Len(last.pre)) = last.pre
              /\ templates[Len(templates)].tabs = Survivors
              /\ templates[Len(templates)].usageCount = 0
              /\ templates[Len(templates)].lastUsedAt = Null
        /\ ~last.ok => (validateTemplateName(last.arg) # Valid \/ Survivors = <<>>)

\* the file and the merge flag of the last import
Imported == last.arg.data
NotStoredBefore(t) == t.id \notin Ids(last.pre)

\* C17: a merging import appends, in file order, exactly the imported templates
\* whose id was not stored and leaves the stored ones as they were; a replacing
\* import makes the stored list the file's list; a file without a templates
\* array is rejected with the store unchanged.
C17_ImportMergeOrReplace ==
    last.op = "importTemplates" =>
        IF "templates" \notin DOMAIN Imported
        THEN ~last.ok /\ last.writes = 0 /\ templates = last.pre
        ELSE IF last.arg.merge
        THEN last.ok /\ templates = last.pre \o SelectSeq(Imported.templates, NotStoredBefore)
        ELSE last.ok /\ templates = Imported.templates

\* a merging import of a file holding a template whose id is stored with other
\* content and a template that is new
C17_Witness ==
    /\ last.op = "importTemplates"
    /\ last.arg.merge
    /\ last.pre = <<X1>>
    /\ Imported = ImportFile(<<X1b, X4>>)
    /\ templates = <<X1, X4>>

\* C18: the number a merging import returns is the number of templates it
\* added to the store.
C18_ImportCountsAdded ==
    (last.op = "importTemplates" /\ last.ok /\ last.arg.merge) =>
        last.ret = Len(templates) - Len(last.pre)

-----------------------------------------------------------------------------
(* Updating a stored record *)

\* TemplateManager.updateTemplate found nothing wrong with the name and the
\* tabs of the patch and called StorageService.updateTemplate
PassedToStorage ==
    /\ ~("name" \in DOMAIN last.arg /\ last.arg.name # <<>>
           /\ validateTemplateName(last.arg.name) # Valid)
    /\ ~("tabs" \in DOMAIN last.arg /\ FirstInvalidTab(last.arg.tabs) # 0)

\* the record StorageService.updateTemplate obtains by merging the patch
Merged == Spread(last.pre[FindIndex(last.pre, last.id)], SanitizedUpdates(last.arg))

\* C19: StorageService.updateTemplate fails with 'Template not found' when the
\* id is not stored and with the validation error of the merged record when
\* that record is invalid, in both cases writing nothing and leaving the list
\* as it was; otherwise the stored record becomes the merged record.
C19_UpdateTemplate ==
    last.op = "updateTemplate" =>
        IF ~PassedToStorage
        THEN ~last.ok /\ last.writes = 0 /\ templates = last.pre
        ELSE IF FindIndex(last.pre, last.id) = 0
        THEN /\ ~last.ok
             /\ last.err = "Template not found"
             /\ last.writes = 0
             /\ templates = last.pre
        ELSE IF validateTemplate(Merged) # Valid
        THEN /\ ~last.ok
             /\ last.err = validateTemplate(Merged)
             /\ last.writes = 0
             /\ templates = last.pre
        ELSE /\ last.ok
             /\ templates = [last.pre EXCEPT ![FindIndex(last.pre, last.id)] = Merged]

\* a patch with a good name was merged onto a stored record whose tab is
\* invalid, and was rejected
C19_Witness ==
    /\ last.op = "updateTemplate"
    /\ last.arg = [name |-> N_Mail]
    /\ last.id = "x2"
    /\ last.pre = <<X2>>
    /\ last.err = "Tab 1: URL must use http or https protocol"

-----------------------------------------------------------------------------
(* The tab gateway *)

\* openTabs was handed no tabs, a tab whose URL validateUrl rejects, or a
\* behaviour that is none of the three
BadOpenRequest ==
    \/ last.arg.tabs = <<>>
    \/ \E i \in 1..Len(last.arg.tabs) : validateUrl(last.arg.tabs[i].url) # Valid
    \/ last.arg.openBehavior \notin {"new_window", "current_window", "replace_tabs"}

\* C20: openTabs with an empty list, with any invalid URL or with an unknown
\* behaviour fails without creating a window or a tab and without closing one.
C20_OpenTabsValidatesFirst ==
    (last.op = "openTabs" /\ BadOpenRequest) =>
        /\ ~last.ok
        /\ last.calls = <<>>

\* replace_tabs with closeExisting was asked for a valid tab followed by an
\* invalid one
C20_Witness ==
    /\ last.op = "openTabs"
    /\ last.arg = [tabs |-> <<T_mail, T_ftp>>, openBehavior |-> "replace_tabs",
                   closeExisting |-> TRUE]
    /\ ~last.ok

\* the tabs the last openTabs or launchTemplate was to open and the host calls
\* it would issue if none failed
RequestedTabs ==
    IF last.op = "openTabs" THEN last.arg.tabs
    ELSE IF Before = NullTemplate THEN <<>> ELSE Before.tabs

IssuedPlan ==
    IF last.op = "openTabs"
    THEN openTabsPlan(last.arg.tabs, last.arg.openBehavior, last.arg.closeExisting,
                      last.window)
    ELSE LaunchPlan(last.pre, last.preSettings, last.id, last.arg, last.window)

IsCreate(call) == call.api \in {"windows.create", "tabs.create"}

\* the host rejected a creating call of the last openTabs or launchTemplate
CreateRejected ==
    /\ last.op \in {"openTabs", "launchTemplate"}
    /\ last.failAt > 0
    /\ last.failAt <= Len(IssuedPlan)
    /\ IsCreate(IssuedPlan[last.failAt])

\* C21: when the host rejects the creation of the k-th tab, the first k-1 tabs
\* (and the window) stay created, no later tab is created, nothing is closed
\* after a creation, and the call fails with the host's error.
C21_NoRollback ==
    CreateRejected =>
        LET k == Len(SelectSeq(SubSeq(IssuedPlan, 1, last.failAt), IsCreate))
            made == SelectSeq(last.calls, IsCreate)
        IN  /\ ~last.ok
            /\ last.err = "host: " \o IssuedPlan[last.failAt].api
            /\ Len(made) = k - 1
            /\ \A i \in 1..(k - 1) : made[i].url = RequestedTabs[i].url
            /\ \A i, j \in 1..Len(last.calls) :
                  (i < j /\ IsCreate(last.calls[i])) => IsCreate(last.calls[j])

\* a launch into a new window whose second tab the host refused to create
C21_Witness ==
    /\ last.op = "launchTemplate"
    /\ CreateRejected
    /\ LaunchedWith.openBehavior = "new_window"
    /\ last.failAt = 2
    /\ Len(last.calls) = 1
    /\ last.calls[1].api = "windows.create"

\* the strategy and the closeExisting flag the last openTabs or launchTemplate
\* ran with
RanWith ==
    IF last.op = "openTabs"
    THEN [openBehavior |-> last.arg.openBehavior,
          closeExisting |-> last.arg.closeExisting]
    ELSE LaunchedWith

\* ids of the tabs of the current window that are not pinned
Unpinned == { last.window[i].id : i \in { n \in 1..Len(last.window) : ~last.window[n].pinned } }

\* C22: a tab is closed only under replace_tabs with closeExisting, only if it
\* is a non-pinned tab of the current window, and only before the first new tab
\* is created.
C22_ClosesOnlyUnpinned ==
    last.op \in {"openTabs", "launchTemplate"} =>
        \A j \in 1..Len(last.calls) :
            last.calls[j].api = "tabs.remove" =>
                /\ RanWith.openBehavior = "replace_tabs"
                /\ RanWith.closeExisting
                /\ last.calls[j].win = CurrentWindowId
                /\ last.calls[j].tab \in Unpinned
                /\ \A i \in 1..(j - 1) : ~IsCreate(last.calls[i])

\* replace_tabs with closeExisting ran to its end in a window that holds a
\* pinned and a non-pinned tab
C22_Witness ==
    /\ last.op = "openTabs"
    /\ last.ok
    /\ last.arg.openBehavior = "replace_tabs"
    /\ last.arg.closeExisting
    /\ last.window = W_work
    /\ \E j \in 1..Len(last.calls) : last.calls[j].api = "tabs.remove"

-----------------------------------------------------------------------------
(* C23: initialize() *)

\* the last step was a read or a write of initialize()
Initializing == last.op = "initialize"

\* C23: initialize() is idempotent and non-destructive: having read all three
\* keys present it writes nothing (so a second call in a row changes nothing),
\* and no write of it replaces a template list or a settings record that is
\* stored at the moment of the write, other surfaces' saves included.
C23_InitializeNonDestructive ==
    Initializing =>
        /\ last.arg.read = STORAGE_KEYS => last.writes = 0
        /\ TemplatesKey \in last.arg.keys => templates = last.pre
        /\ SettingsKey \in last.arg.keys => settings = last.preSettings

-----------------------------------------------------------------------------
(* C24: storage failures and the reads *)

\* the last operation was a read of the store whose host call was rejected
ReadRejected(op) == last.op = op /\ ~last.arg.readOk

\* C24: a host read failure makes getTemplates, getTemplate and getSettings
\* fail; only getStorageInfo answers it with null.
C24_ReadFailureSurfaces ==
    /\ \A op \in {"getTemplates", "getTemplate", "getSettings"} :
            ReadRejected(op) => ~last.ok
    /\ ReadRejected("getStorageInfo") => last.ok /\ last.ret = NullTemplate

-----------------------------------------------------------------------------
(* C25: one surface, one operation at a time *)

\* the operations of a surface that have started and not finished
InFlight(surface) == {i \in 1..Len(flight) : flight[i].surface = surface}

\* C25: within the popup the operation of one user action has settled before
\* the operation of the next begins: the popup never has two operations in
\* flight.
C25_PopupSerial == Cardinality(InFlight("popup")) <= 1

-----------------------------------------------------------------------------
(* C29: read-modify-write of the whole list *)

MutationOps ==
    {"createFromCurrentTabs", "deleteTemplate", "updateTemplate",
     "updateTemplateUsage", "importTemplates"}

\* a mutation of a surface has just finished with success, having read the list
Mutated == last.op \in MutationOps /\ last.ok /\ last.arg.read # <<ReadFailed>>

\* the templates, other than the one the operation names, that were stored
\* when it wrote and are not stored after it
Lost == {t \in Range(last.pre) : t.id # last.id /\ t \notin Range(templates)}

\* C29: a mutation writes back the whole list it read.  It keeps every
\* template it read (the one it names apart), and when nothing was written
\* between its read and its write (every mutation completing before the next
\* starts) no stored template is lost.
C29_LastWriteWins ==
    Mutated =>
        /\ \A t \in Range(last.arg.read) : t.id # last.id => t \in Range(templates)
        /\ last.arg.read = last.pre => Lost = {}

\* the background's updateTemplateUsage read before the popup's save wrote and
\* wrote after it: both succeeded and the saved template is gone
C29_Witness ==
    /\ Mutated
    /\ last.op = "updateTemplateUsage"
    /\ last.arg.surface = "background"
    /\ \E t \in Lost : t.id = generateUUID(2) /\ t.id \notin Ids(last.arg.read)
    /\ After.usageCount = 1

-----------------------------------------------------------------------------
(* C30: a rejected read inside a mutation *)

\* a mutation of a surface has just finished whose read of the list was rejected
MutatedBlind == last.op \in MutationOps /\ last.arg.read = <<ReadFailed>>

\* C30: a mutation whose read of the list failed does not write a list that
\* omits templates stored before the call.
C30_FailedReadLosesNothing ==
    MutatedBlind => \A t \in Range(last.pre) : t.id # last.id => t \in Range(templates)

-----------------------------------------------------------------------------
(* C26: settings and templates are stored apart *)

SettingsOps == {"updateSettings", "resetSettings"}

\* the operations that write, or may write, the template list
TemplateOps ==
    {"createEmpty", "createFromCurrentTabs", "saveTemplate", "updateTemplate",
     "deleteTemplate", "addTab", "removeTab", "launchTemplate", "startupTimer",
     "duplicateTemplate", "importTemplates", "exportThenImport", "clearTemplates",
     "updateTemplateUsage"}

\* C26: resetSettings and updateSettings leave the stored template list as it
\* was, and no template operation changes the stored settings: deleting or
\* clearing templates leaves settings.defaultTemplateId as it was.
C26_SettingsTemplatesApart ==
    /\ last.op \in SettingsOps => templates = last.pre
    /\ last.op \in TemplateOps => settings = last.preSettings

\* the default template was deleted, or the list cleared, and
\* settings.defaultTemplateId still names it
C26_Witness ==
    /\ last.op \in {"deleteTemplate", "clearTemplates"}
    /\ settings.defaultTemplateId \in Ids(last.pre)
    /\ settings.defaultTemplateId \notin Ids(templates)
    /\ settings.startupBehavior = "auto_launch"

-----------------------------------------------------------------------------
(* C27: getTemplates({sortBy, sortOrder}) *)

\* the last operation listed the templates sorted by a key of the claim, with
\* an order given
Sorted ==
    /\ last.op = "getTemplates"
    /\ {"sortBy", "sortOrder"} \subseteq DOMAIN last.arg
    /\ last.arg.sortBy \in {"name", "lastUsed", "usageCount"}
    /\ last.arg.sortOrder \in {"asc", "desc"}

\* the stored templates the search keeps, in storage order
Filtered ==
    LET Kept(t) == Includes(toLowerCase(t.name), toLowerCase(last.arg.search))
    IN  IF "search" \in DOMAIN last.arg THEN SelectSeq(last.pre, Kept) ELSE last.pre

Count(list, t) == Cardinality({i \in 1..Len(list) : list[i] = t})

\* a comes before b in the key the claim describes
KeyBefore(a, b) ==
    CASE last.arg.sortBy = "name" -> StringLess(toLowerCase(a.name), toLowerCase(b.name))
      [] last.arg.sortBy = "lastUsed" ->
            \/ a.lastUsedAt = Null /\ b.lastUsedAt # Null
            \/ a.lastUsedAt # Null /\ b.lastUsedAt # Null /\ a.lastUsedAt < b.lastUsedAt
      [] last.arg.sortBy = "usageCount" -> a.usageCount < b.usageCount

Names(list) == [i \in 1..Len(list) |-> list[i].name]

\* C27: getTemplates({sortBy, sortOrder}) returns a permutation of the filtered
\* stored templates, in ascending key order for asc and in descending key
\* order for desc (names compared without case, a null lastUsedAt before every
\* timestamp, usageCount as a number), templates of equal key in storage order;
\* names Zeta, alpha, Beta ascending give alpha, Beta, Zeta.
C27_SortedListing ==
    Sorted =>
        /\ \A t \in Range(Filtered) \cup Range(last.ret) :
                Count(last.ret, t) = Count(Filtered, t)
        /\ \A i, j \in 1..Len(last.ret) :
                i < j =>
                    /\ last.arg.sortOrder = "asc" => ~KeyBefore(last.ret[j], last.ret[i])
                    /\ last.arg.sortOrder = "desc" => ~KeyBefore(last.ret[i], last.ret[j])
                    /\ (~KeyBefore(last.ret[i], last.ret[j])
                            /\ ~KeyBefore(last.ret[j], last.ret[i]))
                       => \E m, n \in 1..Len(Filtered) :
                              /\ m < n
                              /\ Filtered[m] = last.ret[i]
                              /\ Filtered[n] = last.ret[j]
        /\ (Names(Filtered) = <<S_Zeta.name, S_alpha.name, S_Beta.name>>
                /\ last.arg.sortBy = "name" /\ last.arg.sortOrder = "asc")
           => Names(last.ret) = <<S_alpha.name, S_Beta.name, S_Zeta.name>>

\* Zeta, alpha, Beta listed by name ascending
C27_Witness ==
    /\ Sorted
    /\ last.arg = [sortBy |-> "name", sortOrder |-> "asc"]
    /\ Names(last.pre) = <<S_Zeta.name, S_alpha.name, S_Beta.name>>
    /\ Names(last.ret) = <<S_alpha.name, S_Beta.name, S_Zeta.name>>

-----------------------------------------------------------------------------
(* C28: duplicateTemplate *)

\* C28: duplicateTemplate(id) on a stored template succeeds and appends one
\* template with a fresh id, the original's name followed by " (Copy)", the
\* same tabs, usageCount 0 and lastUsedAt null, the templates stored before
\* unchanged; on an unknown id it fails with Not-Found and the store is
\* unchanged.
C28_DuplicateTemplate ==
    last.op = "duplicateTemplate" =>
        IF Before # NullTemplate
        THEN /\ last.ok
             /\ Len(templates) = Len(last.pre) + 1
             /\ SubSeq(templates, 1, Len(last.pre)) = last.pre
             /\ templates[Len(templates)].id \notin Ids(last.pre)
             /\ templates[Len(templates)].name = Before.name \o CopySuffix
             /\ templates[Len(templates)].tabs = Before.tabs
             /\ templates[Len(templates)].usageCount = 0
             /\ templates[Len(templates)].lastUsedAt = Null
        ELSE /\ ~last.ok
             /\ last.err = "Template not found"
             /\ templates = last.pre

====
